---- MODULE Spec2Model ----
(***************************************************************************)
(* Model of opencode-agent-modes: the mode manager (switch / status / list *)
(* / startup reconciliation), the preset initializer and the JSONC loader  *)
(* with its original-text cache.                                           *)
(*                                                                         *)
(* JSON values are records of one shape, [t, s, ms]:                       *)
(*   t  -- "undef" | "null" | "bool" | "num" | "str" | "arr" | "obj"       *)
(*   s  -- the scalar's literal ("" for arrays and objects)                *)
(*   ms -- the members, in insertion order: [k, v, c] with key k ("" in an *)
(*         array), value v and c the comment attached to the member in the *)
(*         file text ("" in every parsed, in-memory value).                *)
(* A file text is [kind, fmt, root]: kind "absent" (no file), "empty",     *)
(* "garbage" (nothing parses) or "doc"; fmt is its whitespace style and    *)
(* root the syntax tree, comments included.                                *)
(***************************************************************************)
EXTENDS Integers, Sequences, FiniteSets, TLC

VARIABLES disk, cache, config, started, last, call

vars == <<disk, cache, config, started, last, call>>

\* the element of a singleton.  Val({e : x \in {step}}) is e with x naming the
\* result of step: the step's result is computed once and used by name
Val(S) == CHOOSE v \in S : TRUE

(***************************************************************************)
(* JSON values                                                             *)
(***************************************************************************)
Undefined == [t |-> "undef", s |-> "", ms |-> <<>>]
JNull == [t |-> "null", s |-> "", ms |-> <<>>]
JStr(x) == [t |-> "str", s |-> x, ms |-> <<>>]
JNum(x) == [t |-> "num", s |-> x, ms |-> <<>>]
JBool(x) == [t |-> "bool", s |-> x, ms |-> <<>>]
JObj(members) == [t |-> "obj", s |-> "", ms |-> members]
JArr(members) == [t |-> "arr", s |-> "", ms |-> members]
EmptyObj == JObj(<<>>)

\* one member of an object, without and with a comment in the text
M(key, value) == [k |-> key, v |-> value, c |-> ""]
MC(key, value, comment) == [k |-> key, v |-> value, c |-> comment]
\* one item of an array
Item(value) == [k |-> "", v |-> value, c |-> ""]

\* JavaScript truthiness of a value
Truthy(v) ==
  CASE v.t \in {"undef", "null"} -> FALSE
    [] v.t = "bool" -> v.s = "true"
    [] v.t = "num" -> v.s # "0"
    [] v.t = "str" -> v.s # ""
    [] OTHER -> TRUE

\* Object.keys(v) for a plain object
Keys(v) == [i \in 1..Len(v.ms) |-> v.ms[i].k]

HasKey(v, key) == v.t = "obj" /\ \E i \in 1..Len(v.ms) : v.ms[i].k = key

IndexOfKey(v, key) == CHOOSE i \in 1..Len(v.ms) : v.ms[i].k = key

\* v[key]: undefined when v is no object or has no such key
Get(v, key) == IF HasKey(v, key) THEN v.ms[IndexOfKey(v, key)].v ELSE Undefined

\* v[key] = value on a plain object: in place when the key exists, else appended
Put(v, key, value) ==
  IF HasKey(v, key)
  THEN [v EXCEPT !.ms[IndexOfKey(v, key)].v = value]
  ELSE [v EXCEPT !.ms = Append(v.ms, M(key, value))]

\* {...a, ...b} for plain objects a and b
RECURSIVE SpreadFrom(_, _, _)
SpreadFrom(acc, b, i) ==
  IF i > Len(b.ms) THEN acc
  ELSE SpreadFrom(Put(acc, b.ms[i].k, b.ms[i].v), b, i + 1)

\* the preset's leaf alone, the target's own fields lost
Spread_PresetOnly(a, b) == b

Spread(a, b) == SpreadFrom(a, b, 1)

\* a === b for values of two different parses: scalars compare by type and
\* value, arrays and objects are distinct references and never identical
StrictEq(a, b) ==
  /\ a.t = b.t
  /\ a.t \notin {"arr", "obj"}
  /\ a.s = b.s

(***************************************************************************)
(* Structural predicates, merge, drift detection, economy derivation       *)
(***************************************************************************)
isObject(obj) == obj.t = "obj"

isLeafNode(value) == HasKey(value, "model") /\ Get(value, "model").t = "str"

\* the existing value a leaf is spread over: {...x} of undefined, null, a
\* number or a boolean has no members
Spreadable_Dropped(x) == EmptyObj

Spreadable(x) == IF x.t = "obj" THEN x ELSE EmptyObj

\* deepMergeModel mutates target in place; here it returns the merged target,
\* with ok = FALSE when an assignment hits a primitive (TypeError, strict mode)
RECURSIVE deepMergeModel(_, _)
RECURSIVE MergeFrom(_, _, _)
MergeFrom(target, preset, i) ==
  IF i > Len(preset.ms) THEN [ok |-> TRUE, v |-> target]
  ELSE
    LET key == preset.ms[i].k
        value == preset.ms[i].v
        actualValue == Get(target, key)
    IN IF ~isObject(value) THEN MergeFrom(target, preset, i + 1)
       ELSE IF target.t # "obj" THEN [ok |-> target.t = "arr", v |-> target]
       ELSE IF isLeafNode(value)
         THEN LET merged == Spread(Spreadable(actualValue), value)
              IN MergeFrom(Put(target, key, merged), preset, i + 1)
         ELSE LET childTarget ==
                    IF actualValue.t \in {"undef", "null"} THEN EmptyObj
                    ELSE actualValue
                  sub == deepMergeModel(childTarget, value)
              IN IF ~sub.ok THEN [ok |-> FALSE, v |-> target]
                 ELSE MergeFrom(Put(target, key, sub.v), preset, i + 1)

deepMergeModel(target, preset) == MergeFrom(target, preset, 1)

RECURSIVE hasDriftRecursive(_, _)
\* drift as any difference between the two trees
hasDriftRecursive_WholeTree(actual, expected) == actual # expected

hasDriftRecursive(actual, expected) ==
  \E i \in 1..Len(expected.ms) :
    LET expectedValue == expected.ms[i].v
        actualValue == Get(actual, expected.ms[i].k)
    IN /\ isObject(expectedValue)
       /\ IF isLeafNode(expectedValue)
          THEN \/ ~Truthy(actualValue)
               \/ \E j \in 1..Len(expectedValue.ms) :
                    ~StrictEq(Get(actualValue, expectedValue.ms[j].k),
                              expectedValue.ms[j].v)
          ELSE hasDriftRecursive(
                 IF Truthy(actualValue) THEN actualValue ELSE EmptyObj,
                 expectedValue)

DEFAULT_ECONOMY_MODEL == "opencode/glm-4.7-free"

RECURSIVE applyEconomyModel(_, _)
applyEconomyModel(cfg, economyModel) ==
  JObj([i \in 1..Len(cfg.ms) |->
    LET value == cfg.ms[i].v
    IN M(cfg.ms[i].k,
         IF isObject(value)
         THEN IF HasKey(value, "model")
              THEN Put(value, "model", JStr(economyModel))
              ELSE applyEconomyModel(value, economyModel)
         ELSE value)])

(***************************************************************************)
(* File texts and the JSONC library calls of the loader                    *)
(***************************************************************************)
Files == {"opencode", "ohmy", "plugin"}

AbsentText == [kind |-> "absent", fmt |-> "", root |-> Undefined]
EmptyText == [kind |-> "empty", fmt |-> "", root |-> Undefined]
GarbageText == [kind |-> "garbage", fmt |-> "", root |-> Undefined]
\* a document as a user wrote it, and as JSON.stringify(data, null, 2) prints it
UserDoc(root) == [kind |-> "doc", fmt |-> "user", root |-> root]

JSONstringify(data) == [kind |-> "doc", fmt |-> "indent2", root |-> data]

\* parsing drops every comment
RECURSIVE StripComments(_)
StripComments(v) ==
  [v EXCEPT !.ms = [i \in 1..Len(v.ms) |->
                      [k |-> v.ms[i].k, v |-> StripComments(v.ms[i].v), c |-> ""]]]

\* jsonc-parser parse(): fault tolerant, undefined when nothing parses
parseJsonc(text) ==
  IF text.kind = "doc" THEN StripComments(text.root) ELSE Undefined

\* typeof
TypeOf(v) ==
  CASE v.t = "undef" -> "undefined"
    [] v.t = "bool" -> "boolean"
    [] v.t = "num" -> "number"
    [] v.t = "str" -> "string"
    [] OTHER -> "object"

RECURSIVE getValueAtPath(_, _)
getValueAtPath(obj, path) ==
  IF path = <<>> THEN obj
  ELSE IF obj.t \in {"null", "undef"} THEN Undefined
  ELSE IF TypeOf(obj) = "object"
       THEN getValueAtPath(Get(obj, Head(path)), Tail(path))
       ELSE Undefined

RECURSIVE deepEqual(_, _)
deepEqual(a, b) ==
  IF a.t = b.t /\ a.t \notin {"arr", "obj"} /\ a.s = b.s THEN TRUE
  ELSE IF a.t = "null" \/ b.t = "null" THEN FALSE
  ELSE IF TypeOf(a) # TypeOf(b) THEN FALSE
  ELSE IF TypeOf(a) # "object" THEN FALSE
  ELSE IF (a.t = "arr") # (b.t = "arr") THEN FALSE
  ELSE IF a.t = "arr"
       THEN /\ Len(a.ms) = Len(b.ms)
            /\ \A i \in 1..Len(a.ms) : deepEqual(a.ms[i].v, b.ms[i].v)
       ELSE /\ Len(a.ms) = Len(b.ms)
            /\ \A i \in 1..Len(a.ms) :
                 deepEqual(a.ms[i].v, Get(b, a.ms[i].k))

\* the value modify() creates for a path whose parents do not exist
RECURSIVE Wrap(_, _)
Wrap(path, value) ==
  IF path = <<>> THEN value
  ELSE JObj(<<M(Head(path), Wrap(Tail(path), value))>>)

\* jsonc-parser setProperty on the syntax tree: an existing property's value
\* node is replaced (its own comment stays, comments inside the old value go),
\* a missing property is appended to the deepest existing parent object, and
\* a parent that is no object is an error
RECURSIVE ModifyNode(_, _, _)
\* a patcher that appends the property whether or not the object has it
ModifyNode_Append(node, path, value) ==
  [ok |-> TRUE,
   v |-> [node EXCEPT !.ms =
            Append(node.ms, M(Head(path), Wrap(Tail(path), value)))]]

ModifyNode(node, path, value) ==
  IF node.t # "obj" THEN [ok |-> FALSE, v |-> node]
  ELSE IF ~HasKey(node, Head(path))
       THEN [ok |-> TRUE,
             v |-> [node EXCEPT !.ms =
                      Append(node.ms, M(Head(path), Wrap(Tail(path), value)))]]
  ELSE IF Len(path) = 1
       THEN [ok |-> TRUE,
             v |-> [node EXCEPT !.ms[IndexOfKey(node, Head(path))].v = value]]
  ELSE LET i == IndexOfKey(node, Head(path))
           sub == ModifyNode(node.ms[i].v, Tail(path), value)
       IN [ok |-> sub.ok, v |-> [node EXCEPT !.ms[i].v = sub.v]]

\* applyEdits(content, modify(content, path, value, modifyOptions)); on a text
\* without a root node the new value is inserted at offset 0, before whatever
\* the text held
\* a patcher that prints the new value as a fresh document
modify_Reprint(content, path, value) ==
  [ok |-> TRUE, text |-> JSONstringify(Wrap(path, value))]

modify(content, path, value) ==
  IF content.kind = "doc"
  THEN LET r == ModifyNode(content.root, path, value)
       IN [ok |-> r.ok, text |-> [content EXCEPT !.root = r.v]]
  ELSE [ok |-> TRUE,
        text |-> [kind |-> "doc",
                  fmt |-> content.kind,
                  root |-> Wrap(path, value)]]

RECURSIVE updateLeafValues(_, _, _, _)
RECURSIVE UpdateKeysFrom(_, _, _, _, _)
UpdateKeysFrom(res, basePath, obj, originalData, i) ==
  IF i > Len(obj.ms) \/ ~res.ok THEN res
  ELSE UpdateKeysFrom(
         updateLeafValues(res.text, Append(basePath, obj.ms[i].k),
                          obj.ms[i].v, originalData),
         basePath, obj, originalData, i + 1)

\* a patcher that rewrites the value of every path it is given
updateLeafValues_AlwaysModify(content, basePath, newValue, originalData) ==
  modify(content, basePath, newValue)

updateLeafValues(content, basePath, newValue, originalData) ==
  IF deepEqual(getValueAtPath(originalData, basePath), newValue)
  THEN [ok |-> TRUE, text |-> content]
  ELSE IF newValue.t # "obj"
       THEN modify(content, basePath, newValue)
       ELSE UpdateKeysFrom([ok |-> TRUE, text |-> content],
                           basePath, newValue, originalData, 1)

(***************************************************************************)
(* loader.ts: loadJsonFile and saveJsonFile over a world w = [disk, cache,  *)
(* log].  cache[f] = AbsentText stands for "no cache entry"; log lists the *)
(* file writes, the notifications and the failures of the running          *)
(* operation, in order.  env names what fails while the operation runs:    *)
(* reads (rfail), writes (wfail) and the notification call (toastFail).    *)
(***************************************************************************)
Ev(kind, what) == [e |-> kind, f |-> what]

\* the message of the error a failed step throws
ErrWrite == "write failed"
ErrPatch == "Can not add property to parent"
ErrMerge == "Cannot create property"

\* a loader that answers an empty document for a missing file
loadJsonFile_EmptyForMissing(w, f, env) ==
  IF f \in env.rfail
  THEN [w |-> [w EXCEPT !.log = Append(@, Ev("readfail", f))], v |-> JNull]
  ELSE IF w.disk[f].kind = "absent" THEN [w |-> w, v |-> EmptyObj]
  ELSE [w |-> [w EXCEPT !.cache[f] = w.disk[f]], v |-> parseJsonc(w.disk[f])]

loadJsonFile(w, f, env) ==
  IF f \in env.rfail
  THEN [w |-> [w EXCEPT !.log = Append(@, Ev("readfail", f))], v |-> JNull]
  ELSE IF w.disk[f].kind = "absent" THEN [w |-> w, v |-> JNull]
  ELSE [w |-> [w EXCEPT !.cache[f] = w.disk[f]], v |-> parseJsonc(w.disk[f])]

\* Bun.write(filePath, content)
BunWrite(w, f, content, env) ==
  IF f \in env.wfail
  THEN [ok |-> FALSE, err |-> ErrWrite,
        w |-> [w EXCEPT !.log = Append(@, Ev("writefail", f))]]
  ELSE [ok |-> TRUE, err |-> "",
        w |-> [w EXCEPT !.disk[f] = content,
                        !.log = Append(@, Ev("write", f))]]

saveJsonFile(w, f, data, env) ==
  IF w.cache[f].kind \notin {"absent", "empty"} /\ data.t \in {"obj", "arr"}
  THEN Val({
         (IF ~res.ok THEN [ok |-> FALSE, err |-> ErrPatch, w |-> w]
         ELSE BunWrite([w EXCEPT !.cache[f] = res.text], f, res.text, env))
         : res \in {UpdateKeysFrom([ok |-> TRUE, text |-> w.cache[f]],
                                   <<>>, data, parseJsonc(w.cache[f]), 1)} })
  ELSE Val({
         BunWrite([w EXCEPT !.cache[f] = content], f, content, env)
         : content \in {JSONstringify(data)} })

pluginConfigExists(w) == w.disk["plugin"].kind # "absent"

(***************************************************************************)
(* initializer.ts                                                          *)
(***************************************************************************)
PerformanceDescription == "High-performance models for complex tasks"
EconomyDescription == "Cost-efficient free model for routine tasks"

OrEmpty(v) == IF Truthy(v) THEN v ELSE EmptyObj

\* a performance preset that drops the global model
buildPerformancePreset_NoGlobalModel(w, env) ==
  Val({ Val({
    [w |-> l2.w,
     v |-> JObj(<<M("description", JStr(PerformanceDescription)),
                  M("opencode", OrEmpty(Get(l1.v, "agent"))),
                  M("oh-my-opencode", OrEmpty(l2.v))>>)]
    : l2 \in {loadJsonFile(l1.w, "ohmy", env)} })
    : l1 \in {loadJsonFile(w, "opencode", env)} })

buildPerformancePreset(w, env) ==
  Val({ Val({
    [w |-> l2.w,
     v |-> JObj(<<M("description", JStr(PerformanceDescription))>>
                \o (IF Truthy(Get(l1.v, "model"))
                    THEN <<M("model", Get(l1.v, "model"))>>
                    ELSE <<>>)
                \o <<M("opencode", OrEmpty(Get(l1.v, "agent"))),
                     M("oh-my-opencode", OrEmpty(l2.v))>>)]
    : l2 \in {loadJsonFile(l1.w, "ohmy", env)} })
    : l1 \in {loadJsonFile(w, "opencode", env)} })

buildEconomyPreset(w, env) ==
  Val({ Val({
    [w |-> l2.w,
     v |-> JObj(<<M("description", JStr(EconomyDescription)),
                  M("model", JStr(DEFAULT_ECONOMY_MODEL)),
                  M("opencode",
                    applyEconomyModel(OrEmpty(Get(l1.v, "agent")),
                                      DEFAULT_ECONOMY_MODEL)),
                  M("oh-my-opencode",
                    applyEconomyModel(OrEmpty(l2.v), DEFAULT_ECONOMY_MODEL))>>)]
    : l2 \in {loadJsonFile(l1.w, "ohmy", env)} })
    : l1 \in {loadJsonFile(w, "opencode", env)} })

\* returns [ok, w, config, exists]; ok = FALSE when the call throws, exists is
\* what pluginConfigExists() answered
initializeConfig(w, env) ==
  Val({
    (IF l.exists = "yes" /\ Truthy(l.v)
    THEN [ok |-> TRUE, w |-> l.w, config |-> l.v, exists |-> l.exists]
    ELSE Val({ Val({ Val({ Val({
           [ok |-> sv.ok, w |-> sv.w, config |-> cfg, exists |-> l.exists]
           : sv \in {saveJsonFile(e.w, "plugin", cfg, env)} })
           : cfg \in {JObj(<<M("currentMode", JStr("performance")),
                             M("showToastOnStartup", JBool("true")),
                             M("presets", JObj(<<M("performance", p.v),
                                                 M("economy", e.v)>>))>>)} })
           : e \in {buildEconomyPreset(p.w, env)} })
           : p \in {buildPerformancePreset(l.w, env)} }))
    : l \in {IF pluginConfigExists(w)
             THEN [exists |-> "yes"] @@ loadJsonFile(w, "plugin", env)
             ELSE [exists |-> "no", w |-> w, v |-> JNull]} })

validateConfig(cfg) ==
  /\ Truthy(Get(cfg, "currentMode"))
  /\ Truthy(Get(cfg, "presets"))
  /\ Len(Get(cfg, "presets").ms) # 0
  /\ Truthy(Get(Get(cfg, "presets"), Get(cfg, "currentMode").s))

(***************************************************************************)
(* Text helpers                                                            *)
(***************************************************************************)
RECURSIVE Join(_, _)
Join(lines, sep) ==
  IF lines = <<>> THEN ""
  ELSE IF Len(lines) = 1 THEN lines[1]
  ELSE lines[1] \o sep \o Join(Tail(lines), sep)

\* JSON.stringify(value) without indentation
RECURSIVE JSONencode(_)
JSONencode(v) ==
  CASE v.t = "str" -> "\"" \o v.s \o "\""
    [] v.t = "null" -> "null"
    [] v.t = "arr" ->
         "[" \o Join([i \in 1..Len(v.ms) |-> JSONencode(v.ms[i].v)], ",") \o "]"
    [] v.t = "obj" ->
         "{" \o Join([i \in 1..Len(v.ms) |->
                        "\"" \o v.ms[i].k \o "\":" \o JSONencode(v.ms[i].v)], ",")
             \o "}"
    [] OTHER -> v.s

\* the members of a leaf other than model and variant, in order
RECURSIVE OtherMembers(_)
OtherMembers(ms) ==
  IF ms = <<>> THEN <<>>
  ELSE (IF Head(ms).k # "model" /\ Head(ms).k # "variant"
        THEN <<Head(ms)>> ELSE <<>>)
       \o OtherMembers(Tail(ms))

RECURSIVE formatHierarchicalTree(_, _)
FormatEntry(m, indent) ==
  IF isLeafNode(m.v)
  THEN LET variant == IF Truthy(Get(m.v, "variant"))
                      THEN " (" \o Get(m.v, "variant").s \o ")" ELSE ""
           others == OtherMembers(m.v.ms)
           otherProps == Join([i \in 1..Len(others) |->
                                 others[i].k \o ": " \o JSONencode(others[i].v)],
                              ", ")
           extra == IF otherProps # "" THEN " [" \o otherProps \o "]" ELSE ""
       IN <<indent \o m.k \o ": " \o Get(m.v, "model").s \o variant \o extra>>
  ELSE <<indent \o m.k \o ":", formatHierarchicalTree(m.v, indent \o "  ")>>

RECURSIVE FormatLines(_, _)
FormatLines(ms, indent) ==
  IF ms = <<>> THEN <<>>
  ELSE (IF isObject(Head(ms).v) THEN FormatEntry(Head(ms), indent) ELSE <<>>)
       \o FormatLines(Tail(ms), indent)

formatHierarchicalTree(preset, indent) == Join(FormatLines(preset.ms, indent), "\n")

(***************************************************************************)
(* ModeManager                                                             *)
(***************************************************************************)
ToastSwitched == "Mode Switched"
ToastApplied == "Mode Applied"

\* this.client.tui.showToast(...).catch(() => {}): the call is issued and its
\* rejection is swallowed
showToast(w, title, env) ==
  [w EXCEPT !.log = Append(@, Ev(IF env.toastFail THEN "toastfail" ELSE "toast",
                                 title))]

\* the drift decision of hasConfigDrift on the two loaded documents
DriftOf(opencodeConfig, ohMyConfig, preset) ==
  IF ~Truthy(opencodeConfig) /\ ~Truthy(ohMyConfig) THEN FALSE
  ELSE IF /\ Truthy(Get(preset, "model"))
          /\ ~StrictEq(Get(opencodeConfig, "model"), Get(preset, "model"))
       THEN TRUE
  ELSE IF /\ Truthy(Get(opencodeConfig, "agent"))
          /\ hasDriftRecursive(Get(opencodeConfig, "agent"),
                               Get(preset, "opencode"))
       THEN TRUE
  ELSE /\ Truthy(ohMyConfig)
       /\ hasDriftRecursive(ohMyConfig, Get(preset, "oh-my-opencode"))

hasConfigDrift(w, preset, env) ==
  Val({ Val({
    [w |-> l2.w, v |-> DriftOf(l1.v, l2.v, preset)]
    : l2 \in {loadJsonFile(l1.w, "ohmy", env)} })
    : l1 \in {loadJsonFile(w, "opencode", env)} })

SaveResult(sv) ==
  [w |-> sv.w, r |-> IF sv.ok THEN "updated" ELSE "error: " \o sv.err]

updateOpencodeConfig(w, globalModel, agentPresets, env) ==
  Val({
    (IF ~Truthy(l.v) THEN [w |-> l.w, r |-> "skipped (not found)"]
    ELSE IF l.v.t # "obj" THEN [w |-> l.w, r |-> "error: " \o ErrMerge]
    ELSE Val({ Val({
           (IF ~mg.ok THEN [w |-> l.w, r |-> "error: " \o ErrMerge]
           ELSE SaveResult(saveJsonFile(l.w, "opencode",
                                        Put(c1, "agent", mg.v), env)))
           : mg \in {deepMergeModel(OrEmpty(Get(c1, "agent")), agentPresets)} })
           : c1 \in {IF Truthy(globalModel) THEN Put(l.v, "model", globalModel)
                     ELSE l.v} }))
    : l \in {loadJsonFile(w, "opencode", env)} })

updateOhMyOpencodeConfig(w, preset, env) ==
  Val({
    (IF ~Truthy(l.v) THEN [w |-> l.w, r |-> "skipped (not found)"]
    ELSE Val({
           (IF ~mg.ok THEN [w |-> l.w, r |-> "error: " \o ErrMerge]
           ELSE SaveResult(saveJsonFile(l.w, "ohmy", mg.v, env)))
           : mg \in {deepMergeModel(l.v, preset)} }))
    : l \in {loadJsonFile(w, "ohmy", env)} })

\* returns [ok, w, drift]: ok = FALSE when the call throws, drift is "none"
\* when no detection ran, else "yes" or "no"
applyCurrentModeIfNeeded(w, cfg, env) ==
  IF ~Truthy(cfg) THEN [ok |-> TRUE, w |-> w, drift |-> "none"]
  ELSE IF ~Truthy(Get(cfg, "presets")) THEN [ok |-> FALSE, w |-> w, drift |-> "none"]
  ELSE IF ~Truthy(Get(Get(cfg, "presets"), Get(cfg, "currentMode").s))
       THEN [ok |-> TRUE, w |-> w, drift |-> "none"]
  ELSE Val({ Val({
         (IF ~d.v THEN [ok |-> TRUE, w |-> d.w, drift |-> "no"]
         ELSE Val({ Val({
                [ok |-> TRUE, w |-> showToast(u2.w, ToastApplied, env),
                 drift |-> "yes"]
                : u2 \in {updateOhMyOpencodeConfig(
                            u1.w, Get(preset, "oh-my-opencode"), env)} })
                : u1 \in {updateOpencodeConfig(d.w, Get(preset, "model"),
                                               Get(preset, "opencode"), env)} }))
         : d \in {hasConfigDrift(w, preset, env)} })
         : preset \in {Get(Get(cfg, "presets"), Get(cfg, "currentMode").s)} })

\* returns [ok, w, config, drift, exists]; config is the new this.config
initialize(w, cfg, env) ==
  Val({
    (IF ~ic.ok
    THEN [ok |-> FALSE, w |-> ic.w, config |-> cfg, drift |-> "none",
          exists |-> ic.exists]
    ELSE Val({
           [ok |-> ap.ok, w |-> ap.w, config |-> ic.config, drift |-> ap.drift,
            exists |-> ic.exists]
           : ap \in {applyCurrentModeIfNeeded(ic.w, ic.config, env)} }))
    : ic \in {initializeConfig(w, env)} })

\* exists is "none" when the configuration was loaded already
ensureConfig(w, cfg, env) ==
  IF ~Truthy(cfg)
  THEN Val({
         [ok |-> ic.ok, w |-> ic.w, exists |-> ic.exists,
          config |-> IF ic.ok THEN ic.config ELSE cfg]
         : ic \in {initializeConfig(w, env)} })
  ELSE [ok |-> TRUE, w |-> w, exists |-> "none", config |-> cfg]

(***************************************************************************)
(* Public operations.  Each returns [threw, w, config, text, results,       *)
(* exists]: threw = TRUE when the promise rejects, config the new          *)
(* this.config, text the returned string, results the per-file outcomes of *)
(* a switch, exists what the lazy load found ("none" when it did not run). *)
(***************************************************************************)
Thrown(ec, w, cfg) ==
  [threw |-> TRUE, w |-> w, config |-> cfg, text |-> "", results |-> <<>>,
   exists |-> ec.exists]

Returned(ec, w, cfg, text, results) ==
  [threw |-> FALSE, w |-> w, config |-> cfg, text |-> text, results |-> results,
   exists |-> ec.exists]

Bullet(results) == [i \in 1..Len(results) |-> "  - " \o results[i]]

\* a refusal that does not list the available modes
NotFoundMessage_NoList(modeName, presets) ==
  "Mode \"" \o modeName \o "\" not found."

\* the text switchMode returns for an unknown mode name
NotFoundMessage(modeName, presets) ==
  "Mode \"" \o modeName \o "\" not found. Available modes: "
    \o Join(Keys(presets), ", ")

\* a switch that gives up on oh-my-opencode.json when opencode.json was not
\* updated
hostUpdates_AbortOnFailure(w, preset, env) ==
  Val({
    (IF u1.r # "updated" THEN [w |-> u1.w, r1 |-> u1.r, r2 |-> "skipped (not found)"]
    ELSE Val({
           [w |-> u2.w, r1 |-> u1.r, r2 |-> u2.r]
           : u2 \in {updateOhMyOpencodeConfig(
                       u1.w, Get(preset, "oh-my-opencode"), env)} }))
    : u1 \in {updateOpencodeConfig(w, Get(preset, "model"),
                                   Get(preset, "opencode"), env)} })

\* a switch that updates oh-my-opencode.json before opencode.json
hostUpdates_OhMyFirst(w, preset, env) ==
  Val({ Val({
    [w |-> u1.w, r1 |-> u1.r, r2 |-> u2.r]
    : u1 \in {updateOpencodeConfig(u2.w, Get(preset, "model"),
                                   Get(preset, "opencode"), env)} })
    : u2 \in {updateOhMyOpencodeConfig(w, Get(preset, "oh-my-opencode"), env)} })

\* steps 1 and 2 of switchMode: the two host documents, one after the other
hostUpdates(w, preset, env) ==
  Val({ Val({
    [w |-> u2.w, r1 |-> u1.r, r2 |-> u2.r]
    : u2 \in {updateOhMyOpencodeConfig(u1.w, Get(preset, "oh-my-opencode"), env)} })
    : u1 \in {updateOpencodeConfig(w, Get(preset, "model"),
                                   Get(preset, "opencode"), env)} })

\* a switch that forgets to record the new mode
setCurrentMode_Kept(cfg, modeName) == cfg

\* config.currentMode = ""
setCurrentMode_Blank(cfg, modeName) == Put(cfg, "currentMode", JStr(""))

\* config.currentMode = modeName
setCurrentMode(cfg, modeName) == Put(cfg, "currentMode", JStr(modeName))

switchMode(w, cfg, modeName, env) ==
  Val({
    (IF ~ec.ok THEN Thrown(ec, ec.w, ec.config)
    ELSE IF Get(ec.config, "presets").t \in {"undef", "null"}
         THEN Thrown(ec, ec.w, ec.config)
    ELSE Val({
      (IF ~Truthy(preset)
      THEN Returned(ec, ec.w, ec.config,
                    NotFoundMessage(modeName, Get(ec.config, "presets")), <<>>)
      ELSE Val({ Val({ Val({ Val({
             (IF ~sv.ok THEN Thrown(ec, sv.w, newConfig)
             ELSE Returned(ec, showToast(sv.w, ToastSwitched, env), newConfig,
                           Join(<<"Switched to " \o modeName \o " mode",
                                  Get(preset, "description").s, "", "Results:">>
                                \o Bullet(results)
                                \o <<"", "Note: Restart opencode to apply changes.">>,
                                "\n"),
                           results))
             : sv \in {saveJsonFile(hu.w, "plugin", newConfig, env)} })
             : newConfig \in {setCurrentMode(ec.config, modeName)} })
             : results \in {<<"opencode.json: " \o hu.r1,
                              "oh-my-opencode.json: " \o hu.r2,
                              "agent-mode-switcher.json: updated">>} })
             : hu \in {hostUpdates(ec.w, preset, env)} }))
      : preset \in {Get(Get(ec.config, "presets"), modeName)} }))
    : ec \in {ensureConfig(w, cfg, env)} })

getStatus(w, cfg, env) ==
  Val({
    (IF ~ec.ok THEN Thrown(ec, ec.w, ec.config)
    ELSE IF Get(ec.config, "presets").t \in {"undef", "null"}
         THEN Thrown(ec, ec.w, ec.config)
    ELSE Val({ Val({
      (IF ~Truthy(preset)
      THEN Returned(ec, ec.w, ec.config,
                    "Current mode: " \o currentMode \o " (preset not found)",
                    <<>>)
      ELSE Val({ Val({
             Returned(ec, ec.w, ec.config,
                      Join(<<"Current mode: " \o currentMode,
                             "Description: " \o Get(preset, "description").s,
                             IF Truthy(Get(preset, "model"))
                             THEN "Global model: " \o Get(preset, "model").s
                             ELSE "Global model: (not set)",
                             "",
                             "OpenCode config:",
                             IF opencodeTree # "" THEN opencodeTree
                             ELSE "  (none configured)",
                             "",
                             "Oh-my-opencode config:",
                             IF ohMyOpencodeTree # "" THEN ohMyOpencodeTree
                             ELSE "  (none configured)">>, "\n"),
                      <<>>)
             : ohMyOpencodeTree \in
                 {formatHierarchicalTree(Get(preset, "oh-my-opencode"), "  ")} })
             : opencodeTree \in
                 {formatHierarchicalTree(Get(preset, "opencode"), "  ")} }))
      : preset \in {Get(Get(ec.config, "presets"), currentMode)} })
      : currentMode \in {Get(ec.config, "currentMode").s} }))
    : ec \in {ensureConfig(w, cfg, env)} })

\* a list that annotates no preset
listModes_NoMarker(w, cfg, env) ==
  Val({
    (IF ~ec.ok THEN Thrown(ec, ec.w, ec.config)
    ELSE IF Get(ec.config, "presets").t \in {"undef", "null"}
         THEN Thrown(ec, ec.w, ec.config)
    ELSE Val({
      Returned(ec, ec.w, ec.config,
               "Available modes:\n"
               \o Join([i \in 1..Len(presets.ms) |->
                          "- " \o presets.ms[i].k
                          \o ": " \o Get(presets.ms[i].v, "description").s],
                       "\n"),
               <<>>)
      : presets \in {Get(ec.config, "presets")} }))
    : ec \in {ensureConfig(w, cfg, env)} })

listModes(w, cfg, env) ==
  Val({
    (IF ~ec.ok THEN Thrown(ec, ec.w, ec.config)
    ELSE IF Get(ec.config, "presets").t \in {"undef", "null"}
         THEN Thrown(ec, ec.w, ec.config)
    ELSE Val({ Val({
      Returned(ec, ec.w, ec.config,
               "Available modes:\n"
               \o Join([i \in 1..Len(presets.ms) |->
                          "- " \o presets.ms[i].k
                          \o (IF currentMode.t = "str"
                                 /\ presets.ms[i].k = currentMode.s
                              THEN " (current)" ELSE "")
                          \o ": " \o Get(presets.ms[i].v, "description").s],
                       "\n"),
               <<>>)
      : presets \in {Get(ec.config, "presets")} })
      : currentMode \in {Get(ec.config, "currentMode")} }))
    : ec \in {ensureConfig(w, cfg, env)} })

(***************************************************************************)
(* The files a run starts from                                             *)
(***************************************************************************)
\* opencode.json: a global model, a commented agent with a scalar field
OcPlain ==
  UserDoc(JObj(<<
    MC("model", JStr("big/model"), "// global"),
    M("theme", JStr("dark")),
    M("agent", JObj(<<
      MC("build", JObj(<<M("model", JStr("big/a")),
                         M("temperature", JNum("0.5"))>>), "// main agent")>>))>>))

\* opencode.json: no global model, an agent with an array-valued field
OcTools ==
  UserDoc(JObj(<<
    M("agent", JObj(<<
      M("build", JObj(<<M("model", JStr("big/a")),
                        M("tools", JArr(<<Item(JStr("bash"))>>))>>))>>))>>))

\* opencode.json: a global model and no agent key
OcNoAgent == UserDoc(JObj(<<M("model", JStr("big/model"))>>))

\* opencode.json: the global model and an agent section with no agent in it
OcEmptyAgent ==
  UserDoc(JObj(<<M("model", JStr("big/model")), M("agent", EmptyObj)>>))

\* oh-my-opencode.json: two sections, one leaf with a variant
OmPlain ==
  UserDoc(JObj(<<
    M("agents", JObj(<<
      MC("coder", JObj(<<M("model", JStr("big/b")),
                         M("variant", JStr("high"))>>), "/* coder */")>>)),
    M("categories", JObj(<<
      M("quick", JObj(<<M("model", JStr("big/c"))>>))>>))>>))

\* oh-my-opencode.json: a node whose model field is no string
OmOdd ==
  UserDoc(JObj(<<
    M("agents", JObj(<<
      M("legacy", JObj(<<M("model", JNum("7")),
                         M("note", JStr("n"))>>))>>))>>))

NoCache == [f \in Files |-> AbsentText]

NoFailure == [rfail |-> {}, wfail |-> {}, toastFail |-> FALSE]

DiskOf(oc, om, pl) ==
  [f \in Files |-> IF f = "opencode" THEN oc ELSE IF f = "ohmy" THEN om ELSE pl]

\* the plugin state a first run creates from the host documents oc and om
FirstRunState(oc, om) ==
  initializeConfig([disk |-> DiskOf(oc, om, AbsentText),
                    cache |-> NoCache, log |-> <<>>],
                   NoFailure).config

\* the state file an earlier run left, its currentMode set to mode (by a
\* switch, or by an edit while the host was not running)
StateText(oc, om, mode) ==
  JSONstringify(Put(FirstRunState(oc, om), "currentMode", JStr(mode)))

\* the mode names a user asks for or writes into the state file
ModeNames == {"performance", "economy", "nonexistent"}

\* the pairs <<opencode.json, oh-my-opencode.json>> a run starts from
HostPairs ==
  {<<OcPlain, OmPlain>>, <<OcTools, AbsentText>>, <<AbsentText, OmOdd>>,
   <<GarbageText, OmPlain>>, <<OcNoAgent, AbsentText>>, <<AbsentText, AbsentText>>}

\* the disks a run starts from: a first run on each pair of host documents, an
\* unparseable or empty state file, and the state of an earlier run with the
\* host documents as they were or changed since (a changed mode, a document
\* gone, the agents removed from opencode.json)
InitialDisks ==
  {DiskOf(h[1], h[2], AbsentText) : h \in HostPairs}
  \cup {DiskOf(OcPlain, OmPlain, t) : t \in {GarbageText, EmptyText}}
  \cup {DiskOf(OcPlain, OmPlain, StateText(OcPlain, OmPlain, m)) : m \in ModeNames}
  \cup {DiskOf(OcTools, AbsentText, StateText(OcTools, AbsentText, m)) :
          m \in {"performance", "economy"}}
  \cup {DiskOf(AbsentText, OmOdd, StateText(AbsentText, OmOdd, "economy")),
        DiskOf(OcNoAgent, AbsentText, StateText(OcPlain, OmPlain, "economy")),
        DiskOf(AbsentText, AbsentText, StateText(OcPlain, OmPlain, "economy")),
        DiskOf(GarbageText, OmPlain, StateText(OcPlain, OmPlain, "economy"))}
  \cup {DiskOf(oc, AbsentText, StateText(OcPlain, OmPlain, "performance")) :
          oc \in {OcNoAgent, OcEmptyAgent}}

\* the failures an operation may meet: none, the notification, the write of
\* one file, the read of the state file or of oh-my-opencode.json
Envs ==
  {NoFailure, [NoFailure EXCEPT !.toastFail = TRUE]}
  \cup {[NoFailure EXCEPT !.wfail = {f}] : f \in Files}
  \cup {[NoFailure EXCEPT !.rfail = {f}] : f \in {"plugin", "ohmy"}}

\* an operation that finds the configuration loaded and touches no file meets
\* no failure
EnvsOf(cfg) == IF Truthy(cfg) THEN {NoFailure} ELSE Envs

(***************************************************************************)
(* State machine                                                           *)
(*   disk    -- the three files                                            *)
(*   cache   -- originalContentCache of the running process                *)
(*   config  -- ModeManager.config (JNull before it is loaded)            *)
(*   started -- the plugin function has run in this process                *)
(*   last    -- the last operation: its name, argument, outcome, whether   *)
(*              its initializer found the state file, and its log of       *)
(*              writes, notifications and failures                         *)
(*   call    -- one call of a tree function with its arguments and result  *)
(*              (used by TreeSpec; the plugin's run leaves it alone)       *)
(***************************************************************************)
World == [disk |-> disk, cache |-> cache, log |-> <<>>]

NoOp ==
  [op |-> "none", arg |-> "", threw |-> FALSE, text |-> "",
   results |-> <<>>, drift |-> "none", exists |-> "none", log |-> <<>>]

NoCall ==
  [fn |-> "none", a |-> Undefined, b |-> Undefined, ok |-> TRUE,
   v |-> Undefined, d |-> FALSE]

Init ==
  /\ disk \in InitialDisks
  /\ cache = NoCache
  /\ config = JNull
  /\ started = FALSE
  /\ last = NoOp
  /\ call = NoCall

\* index.ts: the plugin function creates the manager and initializes it, any
\* exception is logged and swallowed
Startup ==
  /\ ~started
  /\ \E env \in Envs :
       \E r \in {initialize(World, config, env)} :
          /\ disk' = r.w.disk
          /\ cache' = r.w.cache
          /\ config' = r.config
          /\ last' = [op |-> "startup", arg |-> "", threw |-> ~r.ok,
                      text |-> "", results |-> <<>>,
                      drift |-> r.drift, exists |-> r.exists, log |-> r.w.log]
  /\ started' = TRUE
  /\ UNCHANGED call

Finish(name, arg, r) ==
  /\ disk' = r.w.disk
  /\ cache' = r.w.cache
  /\ config' = r.config
  /\ last' = [op |-> name, arg |-> arg, threw |-> r.threw,
              text |-> r.text, results |-> r.results, drift |-> "none",
              exists |-> r.exists, log |-> r.w.log]
  /\ UNCHANGED <<started, call>>

\* tool mode_switch
Switch ==
  /\ started
  /\ \E m \in ModeNames, env \in Envs :
       \E r \in {switchMode(World, config, m, env)} : Finish("switch", m, r)

\* tool mode_status
Status ==
  /\ started
  /\ \E env \in EnvsOf(config) :
       \E r \in {getStatus(World, config, env)} : Finish("status", "", r)

\* tool mode_list
List ==
  /\ started
  /\ \E env \in EnvsOf(config) :
       \E r \in {listModes(World, config, env)} : Finish("list", "", r)

\* the host exits; the next process starts with no manager and an empty cache
Restart ==
  /\ started
  /\ started' = FALSE
  /\ config' = JNull
  /\ cache' = NoCache
  /\ last' = [NoOp EXCEPT !.op = "restart"]
  /\ UNCHANGED <<disk, call>>

Next == Startup \/ Switch \/ Status \/ List \/ Restart

Spec == Init /\ [][Next]_vars

(***************************************************************************)
(* First runs: the plugin started with no state file on host documents     *)
(* that call.a and call.b remember as they were parsed at the start        *)
(***************************************************************************)
FirstRunPairs ==
  {<<oc, om>> : oc \in {OcPlain, OcTools, OcNoAgent, OcEmptyAgent},
                om \in {OmPlain, OmOdd}}

FirstRunInit ==
  /\ \E h \in FirstRunPairs :
       /\ disk = DiskOf(h[1], h[2], AbsentText)
       /\ call = [NoCall EXCEPT !.fn = "firstrun",
                                !.a = parseJsonc(h[1]), !.b = parseJsonc(h[2])]
  /\ cache = NoCache
  /\ config = JNull
  /\ started = FALSE
  /\ last = NoOp

FirstRunSpec == FirstRunInit /\ [][Next]_vars

(***************************************************************************)
(* Overlapping switches: two mode_switch calls in flight on one manager.   *)
(* call.a and call.b are the two calls: the next await of switchMode each  *)
(* one resumes at, the mode it was asked for and the outcomes it collected.*)
(* Each awaited call runs to its end before the other call resumes, the    *)
(* coarsest interleaving the event loop allows.                            *)
(***************************************************************************)
OverlapModes == {"performance", "economy"}

OverlapPairs == {<<OcPlain, OmPlain>>, <<OcPlain, OmOdd>>, <<OcNoAgent, OmPlain>>}

\* a call that has passed ensureConfig and the preset lookup
Calling(m) == [pc |-> "opencode", mode |-> m, results |-> <<>>]

\* the manager is initialized on documents that carry the current mode: the
\* state of an earlier run is loaded, every file read sits in the cache
OverlapInit ==
  /\ \E h \in OverlapPairs, m \in OverlapModes :
       /\ disk = DiskOf(h[1], h[2], StateText(h[1], h[2], m))
       /\ config = parseJsonc(StateText(h[1], h[2], m))
  /\ cache = disk
  /\ started = TRUE
  /\ last = NoOp
  /\ \E a \in OverlapModes, b \in OverlapModes :
       call = [NoCall EXCEPT !.fn = "overlap", !.a = Calling(a), !.b = Calling(b)]

CallOf(c) == IF c = "a" THEN call.a ELSE call.b

Resume(c, pc, result) ==
  call' = IF c = "a"
          THEN [call EXCEPT !.a.pc = pc, !.a.results = Append(@, result)]
          ELSE [call EXCEPT !.b.pc = pc, !.b.results = Append(@, result)]

PresetOf(c) == Get(Get(config, "presets"), CallOf(c).mode)

\* results.opencode = await this.updateOpencodeConfig(preset.model, preset.opencode)
AwaitOpencode(c) ==
  /\ CallOf(c).pc = "opencode"
  /\ \E u \in {updateOpencodeConfig(World, Get(PresetOf(c), "model"),
                                    Get(PresetOf(c), "opencode"), NoFailure)} :
       /\ disk' = u.w.disk
       /\ cache' = u.w.cache
       /\ Resume(c, "ohmy", "opencode.json: " \o u.r)
  /\ last' = [NoOp EXCEPT !.op = "await", !.arg = CallOf(c).mode]
  /\ UNCHANGED <<config, started>>

\* results['oh-my-opencode'] = await this.updateOhMyOpencodeConfig(...)
AwaitOhMyOpencode(c) ==
  /\ CallOf(c).pc = "ohmy"
  /\ \E u \in {updateOhMyOpencodeConfig(World, Get(PresetOf(c), "oh-my-opencode"),
                                        NoFailure)} :
       /\ disk' = u.w.disk
       /\ cache' = u.w.cache
       /\ Resume(c, "state", "oh-my-opencode.json: " \o u.r)
  /\ last' = [NoOp EXCEPT !.op = "await", !.arg = CallOf(c).mode]
  /\ UNCHANGED <<config, started>>

\* config.currentMode = modeName; await savePluginConfig(config); the
\* notification is sent and the call returns its result text
AwaitSavePluginConfig(c) ==
  /\ CallOf(c).pc = "state"
  /\ \E newConfig \in {setCurrentMode(config, CallOf(c).mode)} :
       \E sv \in {saveJsonFile(World, "plugin", newConfig, NoFailure)} :
          /\ config' = newConfig
          /\ disk' = sv.w.disk
          /\ cache' = sv.w.cache
          /\ last' = [NoOp EXCEPT
                        !.op = "switch", !.arg = CallOf(c).mode,
                        !.results = Append(CallOf(c).results,
                                           "agent-mode-switcher.json: updated"),
                        !.log = showToast(sv.w, ToastSwitched, NoFailure).log]
  /\ Resume(c, "done", "agent-mode-switcher.json: updated")
  /\ UNCHANGED started

OverlapNext ==
  \E c \in {"a", "b"} :
    AwaitOpencode(c) \/ AwaitOhMyOpencode(c) \/ AwaitSavePluginConfig(c)

OverlapSpec == OverlapInit /\ [][OverlapNext]_vars

(***************************************************************************)
(* The tree functions on their own: mergeModel and hasDrift applied to     *)
(* trees drawn from bounded sets                                           *)
(***************************************************************************)
\* configuration trees as the host documents hold them: a leaf with an extra
\* field, a null and an empty section, scalar and array valued keys
TreeTargets ==
  {EmptyObj,
   JObj(<<M("build", JObj(<<M("model", JStr("B"))>>))>>),
   JObj(<<M("build", JObj(<<M("model", JStr("B")), M("keep", JBool("true"))>>)),
          M("plan", JObj(<<M("model", JStr("P"))>>))>>),
   JObj(<<M("agents", JObj(<<
            M("coder", JObj(<<M("model", JStr("B")),
                              M("variant", JStr("high"))>>))>>)),
          M("theme", JStr("dark"))>>),
   JObj(<<M("agents", EmptyObj), M("other", JArr(<<Item(JNum("1"))>>))>>),
   JObj(<<M("build", JNull)>>),
   JObj(<<M("build", JObj(<<M("model", JStr("A")), M("temp", JNum("0.5"))>>))>>),
   JObj(<<M("build", JObj(<<M("model", JStr("A")),
                            M("tools", JArr(<<Item(JStr("bash"))>>))>>))>>),
   JObj(<<M("build", JObj(<<M("model", JStr("B"))>>)),
          M("version", JNum("1")), M("list", JStr("keep"))>>)}

\* preset trees: leaves at depth one to three, scalar and array entries, a
\* leaf with an array valued field, an object without a model
TreePresets ==
  {JObj(<<M("build", JObj(<<M("model", JStr("A")), M("temp", JNum("0.5"))>>))>>),
   JObj(<<M("agents", JObj(<<M("coder", JObj(<<M("model", JStr("A"))>>))>>)),
          M("categories", JObj(<<
            M("quick", JObj(<<M("model", JStr("C")),
                              M("variant", JStr("low"))>>))>>))>>),
   JObj(<<M("build", JObj(<<M("model", JStr("A"))>>)),
          M("version", JNum("2")), M("list", JArr(<<Item(JStr("x"))>>))>>),
   EmptyObj,
   JObj(<<M("agents", JObj(<<
            M("deep", JObj(<<M("er", JObj(<<M("model", JStr("D"))>>))>>))>>))>>),
   JObj(<<M("build", JObj(<<M("model", JStr("A")),
                            M("tools", JArr(<<Item(JStr("bash"))>>))>>))>>),
   JObj(<<M("build", JObj(<<M("name", JStr("nomodel"))>>))>>)}

\* the key paths of a tree that lead to an object, the root's path included
RECURSIVE ObjectPaths(_)
ObjectPaths(v) ==
  IF ~isObject(v) THEN {}
  ELSE {<<>>} \cup UNION {{<<v.ms[i].k>> \o p : p \in ObjectPaths(v.ms[i].v)} :
                            i \in 1..Len(v.ms)}

\* v with v[path][key] = value
RECURSIVE PutAtPath(_, _, _, _)
PutAtPath(v, path, key, value) ==
  IF path = <<>> THEN Put(v, key, value)
  ELSE Put(v, Head(path), PutAtPath(Get(v, Head(path)), Tail(path), key, value))

\* what is added under a key that no preset has: a field, a leaf, a branch
ExtraKey == "extra"
ExtraValues ==
  {JStr("x"), JObj(<<M("model", JStr("Z"))>>),
   JObj(<<M("sub", JObj(<<M("model", JStr("Z"))>>))>>)}

TreeInit ==
  /\ disk = DiskOf(AbsentText, AbsentText, AbsentText)
  /\ cache = NoCache
  /\ config = JNull
  /\ started = FALSE
  /\ last = NoOp
  /\ \E a \in TreeTargets \cup TreePresets, b \in TreePresets :
       call = [NoCall EXCEPT !.fn = "input", !.a = a, !.b = b]

\* mergeModel(a, b): a is changed in place, v is a after the call
Merge ==
  /\ call.fn = "input"
  /\ \E r \in {deepMergeModel(call.a, call.b)} :
       call' = [call EXCEPT !.fn = "merge", !.ok = r.ok, !.v = r.v]
  /\ UNCHANGED <<disk, cache, config, started, last>>

\* hasDrift(a, b)
Drift ==
  /\ call.fn = "input"
  /\ call' = [call EXCEPT !.fn = "drift", !.d = hasDriftRecursive(call.a, call.b)]
  /\ UNCHANGED <<disk, cache, config, started, last>>

\* hasDrift again, on a with one more key, leaf field or branch somewhere
Grow ==
  /\ call.fn = "drift"
  /\ \E p \in ObjectPaths(call.a), x \in ExtraValues :
       \E g \in {PutAtPath(call.a, p, ExtraKey, x)} :
          call' = [call EXCEPT !.fn = "grown", !.a = g,
                               !.d = hasDriftRecursive(g, call.b)]
  /\ UNCHANGED <<disk, cache, config, started, last>>

\* formatHierarchicalTree(a) with the default indent; v is the text
Format ==
  /\ call.fn = "input"
  /\ call' = [call EXCEPT !.fn = "format",
                          !.v = JStr(formatHierarchicalTree(call.a, "  "))]
  /\ UNCHANGED <<disk, cache, config, started, last>>

TreeNext == Merge \/ Drift \/ Grow \/ Format

TreeSpec == TreeInit /\ [][TreeNext]_vars

(***************************************************************************)
(* The loader on its own: one file loaded, its data changed by the caller  *)
(* and saved, any number of times.  config is the data the caller holds;   *)
(* last.op names the step, "resave" for a save that follows a save.        *)
(***************************************************************************)
LoaderFile == "opencode"

\* the texts the file starts with
LoaderTexts ==
  {OcPlain, OmPlain, AbsentText, EmptyText, GarbageText}

\* data a caller builds by itself: a changed value, a dropped key and a new
\* empty object; nested leaves and an array; nothing
LoaderData ==
  {JObj(<<M("model", JStr("big/model")),
          M("agent", JObj(<<M("build", JObj(<<M("model", JStr("small/a"))>>))>>)),
          M("extra", EmptyObj)>>),
   JObj(<<M("agents", JObj(<<
            M("coder", JObj(<<M("model", JStr("small/b")),
                              M("variant", JStr("high"))>>))>>)),
          M("list", JArr(<<Item(JNum("1"))>>))>>),
   EmptyObj}

\* the model a caller assigns to a leaf
NewModel == "new/m"

\* the paths of the objects of a tree that have a string model
ModelHolders(v) == {p \in ObjectPaths(v) : isLeafNode(getValueAtPath(v, p))}

\* v with v[path].model = model
RECURSIVE SetModelAt(_, _, _)
SetModelAt(v, path, model) ==
  IF path = <<>> THEN Put(v, "model", JStr(model))
  ELSE Put(v, Head(path), SetModelAt(Get(v, Head(path)), Tail(path), model))

\* the same data with the keys of every object in reverse order
RECURSIVE ReverseKeys(_)
ReverseKeys(v) ==
  IF ~isObject(v) THEN v
  ELSE [v EXCEPT !.ms = [i \in 1..Len(v.ms) |->
                           [v.ms[Len(v.ms) + 1 - i] EXCEPT
                              !.v = ReverseKeys(v.ms[Len(v.ms) + 1 - i].v)]]]

LoaderWorld == [disk |-> disk, cache |-> cache, log |-> <<>>]

LoaderInit ==
  /\ \E t \in LoaderTexts : disk = DiskOf(t, AbsentText, AbsentText)
  /\ cache = NoCache
  /\ config \in LoaderData
  /\ started = FALSE
  /\ last = NoOp
  /\ call = NoCall

\* loadJsonFile(path): the caller holds what was parsed
LoadDoc ==
  /\ \E r \in {loadJsonFile(LoaderWorld, LoaderFile, NoFailure)} :
       /\ cache' = r.w.cache
       /\ config' = r.v
  /\ last' = [NoOp EXCEPT !.op = "load"]
  /\ UNCHANGED <<disk, started, call>>

\* the caller assigns another model to one leaf of its data
EditModel ==
  /\ \E p \in ModelHolders(config) :
       /\ getValueAtPath(config, Append(p, "model")) # JStr(NewModel)
       /\ config' = SetModelAt(config, p, NewModel)
  /\ last' = [NoOp EXCEPT !.op = "edit"]
  /\ UNCHANGED <<disk, cache, started, call>>

\* the caller rebuilds its data with the keys in another order
Reorder ==
  /\ ReverseKeys(config) # config
  /\ config' = ReverseKeys(config)
  /\ last' = [NoOp EXCEPT !.op = "reorder"]
  /\ UNCHANGED <<disk, cache, started, call>>

\* the caller replaces its data
Replace ==
  /\ config' \in LoaderData
  /\ config' # config
  /\ last' = [NoOp EXCEPT !.op = "replace"]
  /\ UNCHANGED <<disk, cache, started, call>>

\* saveJsonFile(path, data)
SaveDoc ==
  /\ isObject(config)
  /\ \E sv \in {saveJsonFile(LoaderWorld, LoaderFile, config, NoFailure)} :
       /\ disk' = sv.w.disk
       /\ cache' = sv.w.cache
       /\ last' = [NoOp EXCEPT
                     !.op = IF last.op \in {"save", "resave"}
                            THEN "resave" ELSE "save",
                     !.threw = ~sv.ok,
                     !.log = sv.w.log]
  /\ UNCHANGED <<config, started, call>>

LoaderNext == LoadDoc \/ EditModel \/ Reorder \/ Replace \/ SaveDoc

LoaderSpec == LoaderInit /\ [][LoaderNext]_vars

(***************************************************************************)
(* Vocabulary of the properties                                            *)
(***************************************************************************)
HostFiles == {"opencode", "ohmy"}

HasEvent(log, kind, what) == \E i \in 1..Len(log) : log[i] = Ev(kind, what)

\* the operation met no read, write or notification failure
NoFailures(log) ==
  \A i \in 1..Len(log) : log[i].e \notin {"readfail", "writefail", "toastfail"}

\* a notification was issued, whether or not it got through
Notified(log) == \E i \in 1..Len(log) : log[i].e \in {"toast", "toastfail"}

\* Bun.write was called for the file, whether or not it succeeded
WriteTried(log, f) == HasEvent(log, "write", f) \/ HasEvent(log, "writefail", f)

\* the last operation was a switch that returned its success text
SwitchSucceeded(l) == l.op = "switch" /\ ~l.threw /\ l.results # <<>>

CurrentPreset(cfg) == Get(Get(cfg, "presets"), Get(cfg, "currentMode").s)

HostFileName(f) == IF f = "opencode" THEN "opencode.json" ELSE "oh-my-opencode.json"

\* the outcome the result text reports for a host file
ReportedOutcome(l, f) == l.results[IF f = "opencode" THEN 1 ELSE 2]

Outcomes(f) ==
  {HostFileName(f) \o ": " \o o :
     o \in {"updated", "skipped (not found)"}
           \cup {"error: " \o e : e \in {ErrWrite, ErrPatch, ErrMerge}}}

C2_SwitchCommitsCurrentMode ==
  SwitchSucceeded(last)
  => /\ Get(config, "currentMode") = JStr(last.arg)
     /\ Get(parseJsonc(disk["plugin"]), "currentMode") = JStr(last.arg)
     /\ last.results[Len(last.results)] = "agent-mode-switcher.json: updated"
     /\ HasEvent(last.log, "write", "plugin")

\* a switch succeeded although a host document's update failed
C2_Witness ==
  /\ SwitchSucceeded(last)
  /\ last.arg = "economy"
  /\ ReportedOutcome(last, "opencode") = "opencode.json: error: " \o ErrWrite
  /\ Get(parseJsonc(disk["plugin"]), "currentMode") = JStr("economy")

(***************************************************************************)
(* C3 (as stated): switch, status and list never throw, whatever fails,    *)
(* and a failed notification changes nothing: the switch still returns     *)
(* its success text with the state committed.                              *)
(***************************************************************************)
C3_PublicOperationsNeverThrow ==
  /\ last.op \in {"switch", "status", "list"} => ~last.threw
  /\ (last.op = "switch" /\ HasEvent(last.log, "toastfail", ToastSwitched))
     => /\ SwitchSucceeded(last)
        /\ Get(parseJsonc(disk["plugin"]), "currentMode") = JStr(last.arg)

(***************************************************************************)
(* C4: in a switch to an existing preset each host document is updated on  *)
(* its own: whatever opencode.json's outcome, oh-my-opencode.json is       *)
(* still attempted and the new currentMode is still persisted, and the     *)
(* text reports exactly one outcome per host file.                         *)
(***************************************************************************)
C4_HostUpdatesIndependent ==
  SwitchSucceeded(last)
  => /\ Len(last.results) = 3
     /\ \A f \in HostFiles : ReportedOutcome(last, f) \in Outcomes(f)
     /\ \A f \in HostFiles :
          (/\ Truthy(parseJsonc(disk[f]))
           /\ ~HasEvent(last.log, "readfail", f))
          => /\ WriteTried(last.log, f)
             /\ ReportedOutcome(last, f) # HostFileName(f) \o ": skipped (not found)"
             /\ HasEvent(last.log, "write", f)
                  <=> ReportedOutcome(last, f) = HostFileName(f) \o ": updated"
     /\ HasEvent(last.log, "write", "plugin")
     /\ Get(parseJsonc(disk["plugin"]), "currentMode") = JStr(last.arg)

\* opencode.json failed, oh-my-opencode.json was updated all the same
C4_Witness ==
  /\ SwitchSucceeded(last)
  /\ ReportedOutcome(last, "opencode") = "opencode.json: error: " \o ErrWrite
  /\ ReportedOutcome(last, "ohmy") = "oh-my-opencode.json: updated"
  /\ HasEvent(last.log, "write", "ohmy")

Doc(d, f) == parseJsonc(d[f])

\* section 4.3 read on values: some field of a preset leaf has another value
\* in the document, or the leaf is missing there
RECURSIVE ValueDrift(_, _)
ValueDrift(actual, expected) ==
  \E i \in 1..Len(expected.ms) :
    LET expectedValue == expected.ms[i].v
        actualValue == Get(actual, expected.ms[i].k)
    IN /\ isObject(expectedValue)
       /\ IF isLeafNode(expectedValue)
          THEN \/ ~Truthy(actualValue)
               \/ \E j \in 1..Len(expectedValue.ms) :
                    ~deepEqual(Get(actualValue, expectedValue.ms[j].k),
                               expectedValue.ms[j].v)
          ELSE ValueDrift(OrEmpty(actualValue), expectedValue)

\* some host document exists and every one that does carries the preset's
\* values already
AlreadyMatches(d, preset) ==
  LET oc == Doc(d, "opencode")
      om == Doc(d, "ohmy")
  IN /\ Truthy(oc) \/ Truthy(om)
     /\ Truthy(oc)
        => /\ Truthy(Get(preset, "model"))
              => deepEqual(Get(oc, "model"), Get(preset, "model"))
           /\ ~ValueDrift(OrEmpty(Get(oc, "agent")), Get(preset, "opencode"))
     /\ Truthy(om) => ~ValueDrift(om, Get(preset, "oh-my-opencode"))

(***************************************************************************)
(* C6 (as stated): when initialization detects drift against the preset    *)
(* named by currentMode, the preset is merged into every host document     *)
(* that exists and each is persisted, the restart notification is issued,  *)
(* and drift detection run again on the documents just written reports no  *)
(* drift.                                                                  *)
(***************************************************************************)
C6_ReconciliationEndsClean ==
  (/\ last.op = "startup"
   /\ last.drift = "yes"
   /\ NoFailures(last.log))
  => /\ \A f \in HostFiles : Truthy(Doc(disk, f)) => HasEvent(last.log, "write", f)
     /\ HasEvent(last.log, "toast", ToastApplied)
     /\ ~DriftOf(Doc(disk, "opencode"), Doc(disk, "ohmy"), CurrentPreset(config))

(***************************************************************************)
(* C7 (as stated): initialization writes a host document or notifies only  *)
(* when the preset named by currentMode exists and drift was detected:     *)
(* with the preset missing, with no host document, or with the existing    *)
(* documents matching the preset already it writes no host document,       *)
(* issues no notification and does not fail.                               *)
(***************************************************************************)
C7_NoDriftNoWrite ==
  [][(/\ last'.op = "startup"
      /\ NoFailures(last'.log)
      /\ Truthy(config')
      /\ \/ ~Truthy(CurrentPreset(config'))
         \/ \A f \in HostFiles : ~Truthy(Doc(disk, f))
         \/ AlreadyMatches(disk, CurrentPreset(config')))
     => /\ ~last'.threw
        /\ \A f \in HostFiles : ~WriteTried(last'.log, f)
        /\ ~Notified(last'.log)]_vars

(***************************************************************************)
(* C8 (as stated): when the state file exists as the initializer runs, the *)
(* initializer returns the file's content and never writes the file: its   *)
(* text is the same before and after, whatever it contains.                *)
(***************************************************************************)
C8_ExistingStateNeverWritten ==
  [][(/\ last'.op = "startup"
      /\ last'.exists = "yes")
     => /\ disk'["plugin"] = disk["plugin"]
        /\ ~WriteTried(last'.log, "plugin")
        /\ ~last'.threw => config' = Doc(disk, "plugin")]_vars

(***************************************************************************)
(* C9: on a first run (no state file) whose reads and writes succeed the   *)
(* initializer creates and persists a state with currentMode performance   *)
(* and the presets performance and economy, in that order and no other;    *)
(* performance.opencode is the agent subtree of opencode.json,             *)
(* performance["oh-my-opencode"] is the whole oh-my-opencode.json,         *)
(* performance.model is opencode.json's global model when it has one and   *)
(* is absent otherwise, and an absent document contributes an empty tree.  *)
(***************************************************************************)
C9_FirstRunBuildsPerformance ==
  [][(/\ last'.op = "startup"
      /\ last'.exists = "no"
      /\ NoFailures(last'.log))
     => LET oc == Doc(disk, "opencode")
            om == Doc(disk, "ohmy")
            performance == Get(Get(config', "presets"), "performance")
        IN /\ ~last'.threw
           /\ Get(config', "currentMode") = JStr("performance")
           /\ Keys(Get(config', "presets")) = <<"performance", "economy">>
           /\ Get(performance, "opencode")
                = (IF Truthy(oc) /\ HasKey(oc, "agent") THEN Get(oc, "agent")
                   ELSE EmptyObj)
           /\ Get(performance, "oh-my-opencode") = (IF Truthy(om) THEN om ELSE EmptyObj)
           /\ IF Truthy(oc) /\ HasKey(oc, "model")
              THEN Get(performance, "model") = Get(oc, "model")
              ELSE ~HasKey(performance, "model")
           /\ HasEvent(last'.log, "write", "plugin")
           /\ disk["plugin"] = AbsentText
           /\ Doc(disk', "plugin") = config']_vars

\* a first run stored a performance preset with a global model and both trees
C9_Witness ==
  /\ last.op = "startup"
  /\ last.exists = "no"
  /\ NoFailures(last.log)
  /\ Doc(disk, "plugin") = config
  /\ Get(CurrentPreset(config), "model") = JStr("big/model")
  /\ HasKey(Get(CurrentPreset(config), "opencode"), "build")
  /\ HasKey(Get(CurrentPreset(config), "oh-my-opencode"), "categories")

\* the economy derivation of section 4.6 with the leaf predicate of 4.1
RECURSIVE EconomyOfLeaves(_)
EconomyOfLeaves(v) ==
  IF ~isObject(v) THEN v
  ELSE IF isLeafNode(v) THEN Put(v, "model", JStr(DEFAULT_ECONOMY_MODEL))
  ELSE JObj([i \in 1..Len(v.ms) |->
               M(v.ms[i].k, EconomyOfLeaves(v.ms[i].v))])

(***************************************************************************)
(* C10 (as stated): the economy preset of a first run has the keys and     *)
(* nesting of the performance preset's two trees; the model field is       *)
(* replaced by the default economy model at every leaf (a node whose model *)
(* field is a string) and only there, everything else is identical; and    *)
(* economy.model is the default economy model in every case.               *)
(***************************************************************************)
C10_EconomyReplacesLeafModelsOnly ==
  (/\ last.op = "startup"
   /\ last.exists = "no"
   /\ ~last.threw)
  => LET performance == Get(Get(config, "presets"), "performance")
         economy == Get(Get(config, "presets"), "economy")
     IN /\ Get(economy, "model") = JStr(DEFAULT_ECONOMY_MODEL)
        /\ \A t \in {"opencode", "oh-my-opencode"} :
             Get(economy, t) = EconomyOfLeaves(Get(performance, t))

(***************************************************************************)
(* Claims on mergeModel and hasDrift (TreeSpec)                            *)
(***************************************************************************)
KeySet(v) == IF isObject(v) THEN {v.ms[i].k : i \in 1..Len(v.ms)} ELSE {}

\* the paths of the leaves of a preset that are reached through its branches
RECURSIVE LeafPaths(_)
LeafPaths(p) ==
  UNION {IF ~isObject(p.ms[i].v) THEN {}
         ELSE IF isLeafNode(p.ms[i].v) THEN {<<p.ms[i].k>>}
         ELSE {<<p.ms[i].k>> \o q : q \in LeafPaths(p.ms[i].v)} :
           i \in 1..Len(p.ms)}

\* res is old overlaid with the fields of leaf: the fields of leaf with the
\* values of leaf, the other fields of old with the values of old, no more
Overlaid(res, old, leaf) ==
  /\ isObject(res)
  /\ KeySet(res) = KeySet(old) \cup KeySet(leaf)
  /\ \A k \in KeySet(leaf) : Get(res, k) = Get(leaf, k)
  /\ \A k \in KeySet(old) \ KeySet(leaf) : Get(res, k) = Get(old, k)

MergeExampleTarget == JObj(<<M("build", JObj(<<M("model", JStr("B"))>>))>>)
MergeExamplePreset ==
  JObj(<<M("build", JObj(<<M("model", JStr("A")), M("temp", JNum("0.5"))>>))>>)

RECURSIVE KeyPaths(_)
KeyPaths(v) ==
  IF ~isObject(v) THEN {}
  ELSE UNION {{<<v.ms[i].k>>} \cup {<<v.ms[i].k>> \o p : p \in KeyPaths(v.ms[i].v)} :
                i \in 1..Len(v.ms)}

\* the paths a preset addresses: its branches, its leaves and their fields
RECURSIVE PresetPaths(_)
PresetPaths(p) ==
  UNION {IF ~isObject(p.ms[i].v) THEN {}
         ELSE IF isLeafNode(p.ms[i].v)
              THEN {<<p.ms[i].k>>} \cup {<<p.ms[i].k, f>> : f \in KeySet(p.ms[i].v)}
              ELSE {<<p.ms[i].k>>} \cup {<<p.ms[i].k>> \o q : q \in PresetPaths(p.ms[i].v)} :
           i \in 1..Len(p.ms)}

\* the paths of the entries of a preset whose value is no object
RECURSIVE NonObjectEntries(_)
NonObjectEntries(p) ==
  UNION {IF ~isObject(p.ms[i].v) THEN {<<p.ms[i].k>>}
         ELSE IF isLeafNode(p.ms[i].v) THEN {}
         ELSE {<<p.ms[i].k>> \o q : q \in NonObjectEntries(p.ms[i].v)} :
           i \in 1..Len(p.ms)}

\* C12: mergeModel(T, P) deletes no key of T, leaves the value at every path
\* of T that P does not address as it was, and an entry of P whose value is
\* no object (a scalar, an array) changes nothing in T
C12_MergeKeepsTheRest ==
  call.fn = "merge" =>
    /\ \A p \in ObjectPaths(call.a) :
         KeySet(getValueAtPath(call.a, p)) \subseteq KeySet(getValueAtPath(call.v, p))
    /\ \A p \in KeyPaths(call.a) \ PresetPaths(call.b) :
         getValueAtPath(call.v, p) = getValueAtPath(call.a, p)
    /\ \A p \in NonObjectEntries(call.b) :
         getValueAtPath(call.v, p) = getValueAtPath(call.a, p)

\* a merge of a preset with a scalar and an array entry into a target that
\* has other values under the same keys
C12_Witness ==
  /\ call.fn = "merge"
  /\ Get(call.b, "version") = JNum("2")
  /\ Get(call.b, "list").t = "arr"
  /\ Get(call.a, "version") = JNum("1")
  /\ Get(call.v, "version") = JNum("1")
  /\ Get(call.v, "list") = JStr("keep")
  /\ getValueAtPath(call.a, <<"build", "model">>) = JStr("B")
  /\ getValueAtPath(call.v, <<"build", "model">>) = JStr("A")

\* C13 (as stated): hasDrift(actual, expected) is true exactly when some leaf
\* of expected is missing in actual or has a field whose value differs there;
\* it is false when no leaf is missing and every field matches, so it is
\* false for a tree compared with itself
C13_DriftIffLeafMissingOrDiffers ==
  call.fn = "drift" =>
    /\ call.d = ValueDrift(call.a, call.b)
    /\ deepEqual(call.a, call.b) => ~call.d

\* C14: hasDrift inspects only what expected contains: a key, a branch or a
\* leaf field added to actual where expected has none never changes the result
C14_DriftIgnoresExtras ==
  [][call'.fn = "grown" => call'.d = call.d]_vars

\* a field added to a leaf of actual that expected has too, no drift reported
C14_Witness ==
  /\ call.fn = "grown"
  /\ isLeafNode(Get(call.b, "build"))
  /\ getValueAtPath(call.a, <<"build", ExtraKey>>) \in ExtraValues
  /\ ~call.d

(***************************************************************************)
(* Claims on startup reconciliation and on the plugin state (Spec)         *)
(***************************************************************************)
\* the agent tree of opencode.json on disk d
AgentTree(d) == Get(Doc(d, "opencode"), "agent")

\* C15 (as stated): on initialization with opencode.json present, a leaf of
\* the current preset's opencode tree that the document's agent tree lacks
\* (also when the document has no agent key) makes drift detected and is
\* added to the document by reconciliation, whatever the other fields hold
C15_MissingLeafIsReconciled ==
  [][(/\ last'.op = "startup"
      /\ ~last'.threw
      /\ NoFailures(last'.log)
      /\ Truthy(Doc(disk, "opencode"))
      /\ Truthy(CurrentPreset(config')))
     => \A p \in LeafPaths(Get(CurrentPreset(config'), "opencode")) :
          getValueAtPath(AgentTree(disk), p) = Undefined
          => /\ last'.drift = "yes"
             /\ isLeafNode(getValueAtPath(AgentTree(disk'), p))]_vars

(***************************************************************************)
(* Claims on the loader (LoaderSpec)                                       *)
(***************************************************************************)
\* the save just done handed a text to Bun.write
Wrote(l) == l.op \in {"save", "resave"} /\ HasEvent(l.log, "write", LoaderFile)

\* C16: saving a loaded document with data deeply equal (the order of object
\* keys ignored) to what its cached text parses to writes the cached text
\* byte for byte: no edit is made for any path
C16_EqualDataWritesOriginalText ==
  [][(/\ last'.op \in {"save", "resave"}
      /\ cache[LoaderFile].kind = "doc"
      /\ deepEqual(parseJsonc(cache[LoaderFile]), config))
     => /\ Wrote(last')
        /\ disk'[LoaderFile] = cache[LoaderFile]
        /\ cache'[LoaderFile] = cache[LoaderFile]]_vars

\* the commented opencode.json was loaded and saved with its keys reordered
C16_Witness ==
  /\ Wrote(last)
  /\ disk[LoaderFile] = OcPlain
  /\ cache[LoaderFile] = OcPlain
  /\ Keys(config) # Keys(parseJsonc(OcPlain))
  /\ deepEqual(parseJsonc(OcPlain), config)

\* the comments of a text's tree, each with the path of the member it is on
RECURSIVE CommentsOf(_)
CommentsOf(v) ==
  UNION {(IF v.ms[i].c # "" THEN {<<<<v.ms[i].k>>, v.ms[i].c>>} ELSE {})
         \cup {<<<<v.ms[i].k>> \o pc[1], pc[2]>> : pc \in CommentsOf(v.ms[i].v)} :
           i \in 1..Len(v.ms)}

\* data is orig but for the string model of some of its objects
RECURSIVE OnlyModelsDiffer(_, _)
OnlyModelsDiffer(orig, data) ==
  IF isObject(orig) /\ isObject(data)
  THEN /\ KeySet(orig) = KeySet(data)
       /\ \A k \in KeySet(orig) :
            \/ k = "model" /\ Get(orig, k).t = "str" /\ Get(data, k).t = "str"
            \/ OnlyModelsDiffer(Get(orig, k), Get(data, k))
  ELSE deepEqual(orig, data)

\* C17: when a cached commented document is saved with data that differs from
\* what it parses to only in leaf model values, every comment of the original
\* text is still in the written text, and the written text parses to a tree
\* equal to the new data
C17_ModelEditsKeepComments ==
  [][(/\ last'.op \in {"save", "resave"}
      /\ cache[LoaderFile].kind = "doc"
      /\ CommentsOf(cache[LoaderFile].root) # {}
      /\ ~deepEqual(parseJsonc(cache[LoaderFile]), config)
      /\ OnlyModelsDiffer(parseJsonc(cache[LoaderFile]), config))
     => /\ Wrote(last')
        /\ CommentsOf(cache[LoaderFile].root) \subseteq CommentsOf(disk'[LoaderFile].root)
        /\ deepEqual(parseJsonc(disk'[LoaderFile]), config)]_vars

\* the commented opencode.json saved with the model of its agent changed
C17_Witness ==
  /\ Wrote(last)
  /\ CommentsOf(disk[LoaderFile].root) = CommentsOf(OcPlain.root)
  /\ <<<<"agent", "build">>, "// main agent">> \in CommentsOf(disk[LoaderFile].root)
  /\ getValueAtPath(parseJsonc(disk[LoaderFile]), <<"agent", "build", "model">>)
       = JStr(NewModel)
  /\ getValueAtPath(parseJsonc(disk[LoaderFile]), <<"model">>) = JStr("big/model")
  /\ parseJsonc(disk[LoaderFile]) = config

\* C18: two consecutive saves of the same path with the same data write the
\* same text both times, whether or not a cached original text existed before
\* the first: the second save patches the text the first wrote and edits
\* nothing
C18_SecondSaveWritesSameText ==
  [][(last'.op = "resave" /\ Wrote(last))
     => /\ Wrote(last')
        /\ config' = config
        /\ disk'[LoaderFile] = disk[LoaderFile]
        /\ cache'[LoaderFile] = disk[LoaderFile]]_vars

\* data with a leaf and an array saved twice to a file that was never loaded
C18_Witness ==
  /\ last.op = "resave"
  /\ Wrote(last)
  /\ disk[LoaderFile] = JSONstringify(config)
  /\ Get(config, "list").t = "arr"
  /\ isLeafNode(getValueAtPath(config, <<"agents", "coder">>))

\* the step loaded no state from the state file: the file held none, or the
\* read failed
NothingLoaded(d, l) ==
  ~Truthy(Doc(d, "plugin")) \/ HasEvent(l.log, "readfail", "plugin")

\* C19: a plugin state created by the initializer satisfies validateConfig
\* (currentMode non-empty, presets non-empty, presets[currentMode] exists),
\* and so does the state after every switch, status and list that starts from
\* a state that does, whether the mode name asked for exists or not; the state
\* file, once valid, stays valid
C19_StateStaysValid ==
  [][/\ (~Truthy(config) /\ Truthy(config') /\ NothingLoaded(disk, last'))
          => validateConfig(config')
     /\ (validateConfig(config) /\ last'.op \in {"switch", "status", "list"})
          => validateConfig(config')
     /\ (disk'["plugin"] # disk["plugin"] /\ validateConfig(Doc(disk, "plugin")))
          => validateConfig(Doc(disk', "plugin"))]_vars

\* a first run created the state, a switch to economy changed it, and a
\* switch to a mode that does not exist has just been refused
C19_Witness ==
  /\ last.op = "switch"
  /\ last.arg = "nonexistent"
  /\ ~last.threw
  /\ Get(config, "currentMode") = JStr("economy")
  /\ validateConfig(config)
  /\ Doc(disk, "plugin") = config

\* the plugin states a and b have the same presets and showToastOnStartup
SameButMode(a, b) ==
  /\ Get(a, "presets") = Get(b, "presets")
  /\ Get(a, "showToastOnStartup") = Get(b, "showToastOnStartup")
  /\ KeySet(a) = KeySet(b)

\* currentMode differs between a and b only by a switch to a preset of a
ModeChangeIsSwitch(a, b, l) ==
  Get(a, "currentMode") # Get(b, "currentMode")
  => /\ l.op = "switch"
     /\ HasKey(Get(a, "presets"), l.arg)
     /\ Get(b, "currentMode") = JStr(l.arg)

\* C20 (as stated): switch, status, list and startup reconciliation never
\* change the presets map or showToastOnStartup: of the plugin state, in
\* memory and in the state file, an operation changes currentMode only, and
\* only a switch to an existing preset does
C20_OnlyCurrentModeChanges ==
  [][last'.op \in {"startup", "switch", "status", "list"}
     => /\ Truthy(config)
             => /\ SameButMode(config, config')
                /\ ModeChangeIsSwitch(config, config', last')
        /\ (disk'["plugin"] # disk["plugin"] /\ Truthy(Doc(disk, "plugin")))
             => /\ SameButMode(Doc(disk, "plugin"), Doc(disk', "plugin"))
                /\ ModeChangeIsSwitch(Doc(disk, "plugin"), Doc(disk', "plugin"), last')
        /\ (~Truthy(config) /\ Truthy(config') /\ Truthy(Doc(disk, "plugin")))
             => /\ SameButMode(Doc(disk, "plugin"), config')
                /\ ModeChangeIsSwitch(Doc(disk, "plugin"), config', last')]_vars

(***************************************************************************)
(* Claims on the texts of list and status (Spec, TreeSpec)                 *)
(***************************************************************************)
\* the lines of a list: one per preset, in the order of the presets map, the
\* preset named mode annotated
RECURSIVE ListLinesFrom(_, _, _)
ListLinesFrom(presets, mode, i) ==
  IF i > Len(presets.ms) THEN ""
  ELSE "\n- " \o presets.ms[i].k
       \o (IF presets.ms[i].k = mode THEN " (current)" ELSE "")
       \o ": " \o Get(presets.ms[i].v, "description").s
       \o ListLinesFrom(presets, mode, i + 1)

\* C21: list() names every preset exactly once with its description and
\* annotates with (current) exactly the preset whose name is currentMode, none
\* when currentMode names no preset; after a successful switch(m) exactly m is
\* annotated
C21_ListAnnotatesCurrentMode ==
  [][(last'.op = "list" /\ ~last'.threw)
     => /\ last'.text =
             "Available modes:"
             \o ListLinesFrom(Get(config', "presets"),
                              Get(config', "currentMode").s, 1)
        /\ SwitchSucceeded(last)
             => last'.text =
                  "Available modes:"
                  \o ListLinesFrom(Get(config', "presets"), last.arg, 1)]_vars

\* the list asked for after a switch to economy
C21_Witness ==
  /\ last.op = "list"
  /\ ~last.threw
  /\ Get(config, "currentMode") = JStr("economy")
  /\ last.text = "Available modes:\n"
       \o "- performance: High-performance models for complex tasks\n"
       \o "- economy (current): Cost-efficient free model for routine tasks"

\* the fields of a leaf other than model and variant as `key: json`, each
\* preceded by sep but the first
RECURSIVE OtherFields(_, _, _)
OtherFields(leaf, i, first) ==
  IF i > Len(leaf.ms) THEN ""
  ELSE IF leaf.ms[i].k \in {"model", "variant"} THEN OtherFields(leaf, i + 1, first)
  ELSE (IF first THEN "" ELSE ", ")
       \o leaf.ms[i].k \o ": " \o JSONencode(leaf.ms[i].v)
       \o OtherFields(leaf, i + 1, FALSE)

\* the line of a leaf
LeafLine(indent, key, leaf) ==
  indent \o key \o ": " \o Get(leaf, "model").s
  \o (IF HasKey(leaf, "variant") THEN " (" \o Get(leaf, "variant").s \o ")" ELSE "")
  \o (IF OtherFields(leaf, 1, TRUE) # ""
      THEN " [" \o OtherFields(leaf, 1, TRUE) \o "]" ELSE "")

\* one line per object valued node reached through branches, in mapping
\* order, children two spaces deeper
RECURSIVE TreeLines(_, _, _)
TreeLines(tree, indent, i) ==
  IF i > Len(tree.ms) THEN <<>>
  ELSE (IF ~isObject(tree.ms[i].v) THEN <<>>
        ELSE IF isLeafNode(tree.ms[i].v)
             THEN <<LeafLine(indent, tree.ms[i].k, tree.ms[i].v)>>
             ELSE <<indent \o tree.ms[i].k \o ":">>
                  \o TreeLines(tree.ms[i].v, indent \o "  ", 1))
       \o TreeLines(tree, indent, i + 1)

\* the lines joined by newline: no empty line, no trailing newline
RECURSIVE JoinedByNewline(_)
JoinedByNewline(lines) ==
  IF lines = <<>> THEN ""
  ELSE IF Len(lines) = 1 THEN lines[1]
  ELSE lines[1] \o "\n" \o JoinedByNewline(Tail(lines))

\* C22 (as stated): formatTree emits exactly one line per object valued node
\* reached through branches, in mapping order (a leaf as key, model, variant
\* and other fields, a branch as its key, children two spaces deeper), joined
\* by newline with no empty line and no trailing newline, for every tree,
\* branches without object valued children included
C22_FormatOneLinePerNode ==
  call.fn = "format"
    => call.v = JStr(JoinedByNewline(TreeLines(call.a, "  ", 1)))

(***************************************************************************)
(* Claims on sequences of operations (FirstRunSpec, Spec)                  *)
(***************************************************************************)
\* the switch reported both host documents updated
BothUpdated(l) ==
  /\ SwitchSucceeded(l)
  /\ \A f \in HostFiles : ReportedOutcome(l, f) = HostFileName(f) \o ": updated"

\* the presets of cfg are those the initializer creates from the documents
\* the run started with
FreshlyCreated(cfg) ==
  Get(cfg, "presets")
    = Get(FirstRunState(UserDoc(call.a), UserDoc(call.b)), "presets")

\* C23 (as stated): for a plugin state freshly created from the host
\* documents D1 and D2, switch(economy) followed by switch(performance), both
\* reporting the two host files updated, leaves both documents parsing to
\* trees equal to D1 and D2, the top-level model of D1 included
C23_EconomyAndBackRestoresDocuments ==
  [][(/\ BothUpdated(last)
      /\ last.arg = "economy"
      /\ last'.arg = "performance"
      /\ BothUpdated(last')
      /\ FreshlyCreated(config))
     => /\ deepEqual(Doc(disk', "opencode"), call.a)
        /\ deepEqual(Doc(disk', "ohmy"), call.b)]_vars

\* the initialization of the next process on disk d, nothing failing
NextInitialization(d) ==
  initialize([disk |-> d, cache |-> NoCache, log |-> <<>>], JNull, NoFailure)

\* C24 (as stated): after a switch(m) whose result reports both host
\* documents updated, the next initialization with no edit in between detects
\* no drift, writes no host document and emits no notification, for every
\* preset m, whatever JSON values its leaf fields hold
C24_NoDriftAfterSwitch ==
  BothUpdated(last)
  => \A r \in {NextInitialization(disk)} :
       /\ r.ok
       /\ r.drift = "no"
       /\ r.w.log = <<>>

\* both overlapping calls have returned
BothReturned == call.fn = "overlap" /\ call.a.pc = "done" /\ call.b.pc = "done"

\* the state file names preset p and every value of p is in both documents
SettledOn(p) ==
  /\ Get(Doc(disk, "plugin"), "currentMode") = JStr(p)
  /\ ~ValueDrift(OrEmpty(Get(Doc(disk, "opencode"), "agent")),
                 Get(Get(Get(config, "presets"), p), "opencode"))
  /\ ~ValueDrift(Doc(disk, "ohmy"),
                 Get(Get(Get(config, "presets"), p), "oh-my-opencode"))

\* C25: once two overlapping switch calls for presets a and b have both
\* returned, there is one preset p among a and b such that the persisted
\* currentMode is p and both host documents show no drift from p
C25_OverlappingSwitchesSettle ==
  BothReturned => \E p \in {call.a.mode, call.b.mode} : SettledOn(p)

\* opencode.json does not exist and oh-my-opencode.json carries every value
\* of the preset
OnlyOhMyAndMatching(d, preset) ==
  /\ d["opencode"] = AbsentText
  /\ Truthy(Doc(d, "ohmy"))
  /\ ~ValueDrift(Doc(d, "ohmy"), Get(preset, "oh-my-opencode"))

\* C26: a startup that finds opencode.json absent and oh-my-opencode.json
\* matching the current preset detects no drift, writes no host document and
\* issues no notification: the preset's global model is compared only with an
\* opencode.json that exists
C26_AbsentOpencodeIsNoDrift ==
  [][(/\ last'.op = "startup"
      /\ NoFailures(last'.log)
      /\ Truthy(config')
      /\ Truthy(CurrentPreset(config'))
      /\ OnlyOhMyAndMatching(disk, CurrentPreset(config')))
     => /\ last'.drift = "no"
        /\ \A f \in HostFiles : ~WriteTried(last'.log, f)
        /\ ~Notified(last'.log)]_vars

\* the paths the running process has loaded or saved
Cached == {f \in Files : cache[f] # AbsentText}

\* C27: once a load or a save of a path has completed, a save whose file
\* write failed included, the original-text cache holds for that path the
\* text that is on disk
C27_CacheEqualsDisk == \A f \in Cached : cache[f] = disk[f]

\* the state file does not exist and both host documents parse
FirstRun(d) ==
  /\ d["plugin"] = AbsentText
  /\ \A f \in HostFiles : Truthy(Doc(d, f))

\* C28: an initialization that finds no state file and both host documents
\* creates the state file and leaves the host documents untouched: it
\* detects no drift, writes no host document and issues no notification
C28_FirstRunTouchesNoHostDocument ==
  [][(/\ FirstRun(disk)
      /\ last'.op = "startup"
      /\ NoFailures(last'.log))
     => /\ HasEvent(last'.log, "write", "plugin")
        /\ last'.drift = "no"
        /\ \A f \in HostFiles : ~WriteTried(last'.log, f) /\ disk'[f] = disk[f]
        /\ ~Notified(last'.log)]_vars

\* the switch returned its success text, so the state file holds the new
\* currentMode, and reported an error for the host file
UpdateFailed(l, f) ==
  /\ SwitchSucceeded(l)
  /\ ReportedOutcome(l, f)
       \in {HostFileName(f) \o ": error: " \o e : e \in {ErrWrite, ErrPatch, ErrMerge}}

\* C29: after a switch to m that persisted currentMode = m while the update
\* of a host document reported an error, the next initialization, its reads
\* and writes succeeding, ends with currentMode = m and with every existing
\* host document carrying the values of preset m
C29_NextStartRepairsFailedUpdate ==
  (\E f \in HostFiles : UpdateFailed(last, f))
  => \A r \in {NextInitialization(disk)} :
       /\ r.ok
       /\ Get(r.config, "currentMode") = JStr(last.arg)
       /\ AlreadyMatches(r.w.disk, CurrentPreset(r.config))

\* the positions of the log at which Bun.write was called for the file
WritesOf(log, f) ==
  {i \in 1..Len(log) : log[i] \in {Ev("write", f), Ev("writefail", f)}}

\* the positions of the log at which a notification was issued
Notifications(log) == {i \in 1..Len(log) : log[i].e \in {"toast", "toastfail"}}

\* the position of the write that records the new currentMode: the last
\* completed write of the state file
StateWrite(log) ==
  CHOOSE s \in 1..Len(log) :
    /\ log[s] = Ev("write", "plugin")
    /\ \A i \in s+1..Len(log) : log[i] # Ev("write", "plugin")

====
